---------------------------- MODULE Spec2Model ----------------------------
(***************************************************************************)
(* Temporal & event coordination core of cocos2d-rust:                     *)
(*   Scheduler        src/src/base/scheduler.rs                            *)
(*   TouchDispatcher  src/src/input/touch_dispatcher.rs                    *)
(*   EventDispatcher  src/src/base/event.rs                                *)
(*   ActionManager    src/src/action/mod.rs                                *)
(*                                                                         *)
(* Each object is one record variable whose fields carry the names of the  *)
(* struct's fields.  Time (f32 seconds in the source) is counted in whole  *)
(* quanta, on which the source's f32 additions and subtractions are exact. *)
(* A HashMap is a function whose DOMAIN is the set of keys present; its    *)
(* iteration order is arbitrary, so a loop over it picks any remaining key.*)
(***************************************************************************)
EXTENDS Integers, Sequences, FiniteSets, TLC

VARIABLES
    scheduler,   \* Scheduler {timers, schedule_callbacks, time_scale, paused}
    upd,         \* position of Scheduler::update: the for loop's remaining keys, its locals
    last_call,   \* history: what the latest step did that a caller can observe
                 \* (a callback invocation, the replacement of a timer), or None
    hist,        \* history: per key, what schedule was asked and what happened since
    touch_dispatcher, \* TouchDispatcher {active_touches, listeners, needs_sort,
                      \*                  is_dispatching, pending_add, pending_remove}
    pass,        \* position of dispatch_touches: the listener whose callback is running
    log,         \* history: the listeners the latest pass invoked, and how it ended
    registered,  \* history: the registered listeners in the order they were registered
    self_removed, \* history: listeners that removed themselves inside their callback
    live,        \* history: touch ids begun and not ended or cancelled since
    deferred,    \* history: listeners given to add_listener inside a callback
                 \* and not removed since
    event_dispatcher, \* EventDispatcher {listeners, listeners_map,
                      \*                  to_removed_listeners, in_update}
    event_listener,   \* the EventListener objects: listener_type, enabled, paused
    ev_pass,     \* position of dispatch_event: the event, the bucket, the callback running
    ev_log,      \* history: the listeners the latest dispatch_event invoked
    panicked,    \* a Vec::remove index was out of range: the thread panicked
    race,        \* two Schedulers that differ in time_scale alone, given the same updates
    action_manager,   \* ActionManager {action_hash, current_action,
                      \*                current_action_removed, target_map}
    added,       \* history: the attached actions in the order add_action was
                 \* given them, each with the target it was given for
    am_call,     \* history: the latest call on the ActionManager and what it returned
    director,    \* Director {running_scene, next_scene, scheduler, delta_time,
                 \*           total_time, is_paused, is_cleanup}
    frame        \* history: the update calls the latest main_loop made, in order

sched_vars == <<scheduler, upd, last_call, hist>>
touch_vars == <<touch_dispatcher, pass, log, registered, self_removed, live, deferred>>
event_vars == <<event_dispatcher, event_listener, ev_pass, ev_log, panicked>>
scale_vars == <<race>>
action_vars == <<action_manager, added, am_call>>
director_vars == <<director, frame>>
vars == <<scheduler, upd, last_call, hist,
          touch_dispatcher, pass, log, registered, self_removed, live, deferred,
          event_dispatcher, event_listener, ev_pass, ev_log, panicked,
          race, action_manager, added, am_call, director, frame>>

\* What the operations of one object leave alone: the other objects
not_sched == <<touch_vars, event_vars, scale_vars, action_vars, director_vars>>
not_touch == <<sched_vars, event_vars, scale_vars, action_vars, director_vars>>
not_event == <<sched_vars, touch_vars, scale_vars, action_vars, director_vars>>
not_scale == <<sched_vars, touch_vars, event_vars, action_vars, director_vars>>
not_action == <<sched_vars, touch_vars, event_vars, scale_vars, director_vars>>
not_director == <<sched_vars, touch_vars, event_vars, scale_vars, action_vars>>

None == [none |-> TRUE]

Min(a, b) == IF a <= b THEN a ELSE b

Range(s) == {s[i] : i \in DOMAIN s}

(***************************************************************************)
(* Bounds of the model and the input sets drawn from them.                 *)
(***************************************************************************)
MaxDt == 2          \* largest delta_time passed to update, in quanta
MaxTotal == 2       \* updates stop once a key has seen this much scaled time
MaxFires == 2       \* updates stop once a live timer has fired this often

Forever == 16777215 \* 0xFFFFFF, the repeat value schedule_simple passes

Keys == {"a", "b"}
Callbacks == {"f", "g"}
Intervals == {-1, 0, 1, 2}
Repeats == {0, 1, 2}
TimeScales == {1, 2}
Deltas == 0 .. MaxDt
MaxInterval == 6    \* longest interval of the timer the two Schedulers are given

MaxBatch == 2       \* most touches in one handle_touches_* call
MaxCalls == 2       \* most calls a pass's callbacks make back into the dispatcher

Listeners == {"L1", "L2", "L3"}
TouchIds == {1, 2}
Locations == {0, 1}
Touches == [id : TouchIds, location : Locations]
Batches == UNION {[1 .. n -> Touches] : n \in 0 .. MaxBatch}
\* A call without touches, and a call with the one touch of a single finger
Taps == {<<>>, <<[id |-> 1, location |-> 0]>>}

MaxAdds == 3        \* most add_listener calls since the EventDispatcher was last empty
MaxRemovals == 2    \* most remove_listener calls queued during one dispatch_event

EventTypes == {"Touch", "Keyboard", "Mouse", "Acceleration", "Custom"}
EventListenerTypes ==
    {"TouchOneByOne", "TouchAllAtOnce", "Keyboard", "Mouse", "Acceleration",
     "Custom", "Node"}
EventListeners == {"K1", "K2", "M1", "T1"}
Indices == 0 .. MaxAdds

Actions == {"a1", "a2", "a3"}
Tags == {1, 2}
Targets == {"t1", "t2"}
\* Memory locations a RefPtr<Node> can stand at: a parameter slot of
\* add_action's frame, a variable or field of a caller
Addrs == {"p", "q"}

MaxClock == 4       \* main_loop stops once total_time has reached this, in quanta
Scenes == {"s1", "s2"}

(***************************************************************************)
(* HashMap helpers.                                                        *)
(***************************************************************************)
MapInsert(m, k, v) == [x \in DOMAIN m \cup {k} |-> IF x = k THEN v ELSE m[x]]

MapRemove(m, k) == [x \in DOMAIN m \ {k} |-> m[x]]

EmptyMap == [x \in {} |-> None]

(***************************************************************************)
(* Scheduler                                                               *)
(***************************************************************************)
Scheduler_new ==
    [timers |-> EmptyMap, schedule_callbacks |-> EmptyMap,
     time_scale |-> 1, paused |-> FALSE]

set_time_scale(s, time_scale) == [s EXCEPT !.time_scale = time_scale]

set_paused(s, paused) == [s EXCEPT !.paused = paused]

\* schedule as it would be with entry(key).or_insert(callback) on line 83:
\* the callback map keeps the entry a key already has
schedule_KeepsCallback(s, key, callback, interval, repeat) ==
    LET timer == [callback |-> callback, interval |-> interval, elapsed |-> 0,
                  repeat |-> repeat, paused |-> FALSE]
    IN  [s EXCEPT !.timers = MapInsert(s.timers, key, timer),
                  !.schedule_callbacks =
                      IF key \in DOMAIN s.schedule_callbacks THEN @
                      ELSE MapInsert(s.schedule_callbacks, key, callback)]

schedule(s, key, callback, interval, repeat) ==
    LET timer == [callback |-> callback, interval |-> interval, elapsed |-> 0,
                  repeat |-> repeat, paused |-> FALSE]
    IN  [s EXCEPT !.timers = MapInsert(s.timers, key, timer),
                  !.schedule_callbacks = MapInsert(s.schedule_callbacks, key, callback)]

schedule_simple(s, key, callback, interval) ==
    schedule(s, key, callback, interval, Forever)

unschedule(s, key) ==
    [s EXCEPT !.timers = MapRemove(s.timers, key),
              !.schedule_callbacks = MapRemove(s.schedule_callbacks, key)]

unschedule_all(s) ==
    [s EXCEPT !.timers = EmptyMap, !.schedule_callbacks = EmptyMap]

\* update as it would be without lines 105-107
update_returns_early_Never(s) == FALSE

\* update, lines 105-107: `if self.paused { return; }`
update_returns_early(s) == s.paused

\* ScaledDelta as it would be without the time_scale factor
ScaledDelta_Unscaled(s, delta_time) == delta_time

\* update, line 109
ScaledDelta(s, delta_time) == delta_time * s.time_scale

\* Timer::repeat is an i32 (line 30)
MinI32 == -2147483647 - 1
MaxI32 == 2147483647

\* Dec32 as it would be if a counter at or below zero were set to zero
Dec32_StopsAtZero(repeat) == IF repeat <= 0 THEN 0 ELSE repeat - 1

\* `timer.repeat -= 1` (line 126) in the arithmetic of i32, as a build without
\* overflow checks computes it
Dec32(repeat) == IF repeat = MinI32 THEN MaxI32 ELSE repeat - 1

\* Fire as it would be with `while` for the `if` of line 118: the timer fires
\* once for every whole interval its elapsed time e holds
Fire_CatchesUp(timer, e) ==
    LET n == IF timer.interval > 0 THEN e \div timer.interval ELSE 1
    IN  [timer |-> [timer EXCEPT !.elapsed = e - n * timer.interval,
                                 !.repeat = timer.repeat - n],
         fired |-> TRUE,
         finished |-> (timer.repeat - n = 0),
         calls |-> n,
         overflow |-> FALSE]

\* update, lines 118-130: the body of `if timer.elapsed >= timer.interval`,
\* entered with elapsed time e
Fire(timer, e) ==
    [timer |-> [timer EXCEPT !.elapsed = e - timer.interval,
                             !.repeat = Dec32(timer.repeat)],
     fired |-> TRUE,
     finished |-> (Dec32(timer.repeat) = 0),
     calls |-> 1,
     overflow |-> (timer.repeat = MinI32)]

\* TimerStep as it would be with `timer.elapsed = 0.0` on line 119
TimerStep_ResetsElapsed(timer, scaled_delta) ==
    IF timer.paused
    THEN [timer |-> timer, fired |-> FALSE, finished |-> FALSE,
          calls |-> 0, overflow |-> FALSE]
    ELSE LET e == timer.elapsed + scaled_delta
         IN  IF e >= timer.interval
             THEN [timer |-> [timer EXCEPT !.elapsed = 0,
                                           !.repeat = Dec32(timer.repeat)],
                   fired |-> TRUE,
                   finished |-> (Dec32(timer.repeat) = 0),
                   calls |-> 1,
                   overflow |-> (timer.repeat = MinI32)]
             ELSE [timer |-> [timer EXCEPT !.elapsed = e],
                   fired |-> FALSE, finished |-> FALSE,
                   calls |-> 0, overflow |-> FALSE]

\* update, lines 115-131: one iteration of the for loop, on one timer.
\* Yields the timer afterwards, whether it fired, how often its callback is
\* looked up and called, whether it is finished, and whether the decrement
\* of line 126 left the range of i32 (the timer then holds the wrapped value).
TimerStep(timer, scaled_delta) ==
    IF timer.paused
    THEN [timer |-> timer, fired |-> FALSE, finished |-> FALSE,
          calls |-> 0, overflow |-> FALSE]
    ELSE LET e == timer.elapsed + scaled_delta
         IN  IF e >= timer.interval
             THEN Fire(timer, e)
             ELSE [timer |-> [timer EXCEPT !.elapsed = e],
                   fired |-> FALSE, finished |-> FALSE,
                   calls |-> 0, overflow |-> FALSE]

\* update, lines 122-124: the callback looked up for the key, and its argument
CallbackCall(s, key) ==
    IF key \in DOMAIN s.schedule_callbacks
    THEN [key |-> key, callback |-> s.schedule_callbacks[key],
          arg |-> s.timers[key].interval]
    ELSE None

RECURSIVE RemoveKeys_LeavesCallbacks(_, _)
\* RemoveKeys as it would be without line 137
RemoveKeys_LeavesCallbacks(s, keys) ==
    IF keys = <<>> THEN s
    ELSE RemoveKeys_LeavesCallbacks(
             [s EXCEPT !.timers = MapRemove(s.timers, Head(keys))], Tail(keys))

RECURSIVE RemoveKeys(_, _)
\* update, lines 135-138
RemoveKeys(s, keys) ==
    IF keys = <<>> THEN s
    ELSE RemoveKeys(unschedule(s, Head(keys)), Tail(keys))

Idle == [active |-> FALSE]

(***************************************************************************)
(* History kept for the properties: hist[key] records the interval and     *)
(* repeat count schedule was called with, the scaled time update has been  *)
(* given since, and the number of times the key's callback was invoked.    *)
(* `start` is the timer's counter where the history begins: the repeat     *)
(* count of the schedule call, or the counter of a timer that had already  *)
(* been firing when the history was taken up.                              *)
(***************************************************************************)
HistTick(h, scaled_delta) ==
    [k \in DOMAIN h |-> [h[k] EXCEPT !.total = @ + scaled_delta]]

WithinBounds(s, h, scaled_delta) ==
    /\ \A k \in DOMAIN h : h[k].total + scaled_delta <= MaxTotal
    /\ \A k \in DOMAIN s.timers : h[k].fires < MaxFires

(***************************************************************************)
(* Scheduler actions.                                                      *)
(***************************************************************************)
Schedule(key, callback, interval, repeat) ==
    /\ ~upd.active
    /\ scheduler' = schedule(scheduler, key, callback, interval, repeat)
    /\ hist' = MapInsert(hist, key,
                 [interval |-> interval, repeat |-> repeat, start |-> repeat,
                  total |-> 0, fires |-> 0])
    /\ last_call' = IF key \in DOMAIN scheduler.timers
                    THEN [replaced |-> key, by |-> callback] ELSE None
    /\ UNCHANGED upd
    /\ UNCHANGED not_sched

ScheduleSimple(key, callback, interval) ==
    /\ ~upd.active
    /\ scheduler' = schedule_simple(scheduler, key, callback, interval)
    /\ hist' = MapInsert(hist, key,
                 [interval |-> interval, repeat |-> Forever, start |-> Forever,
                  total |-> 0, fires |-> 0])
    /\ last_call' = IF key \in DOMAIN scheduler.timers
                    THEN [replaced |-> key, by |-> callback] ELSE None
    /\ UNCHANGED upd
    /\ UNCHANGED not_sched

Unschedule(key) ==
    /\ ~upd.active
    /\ scheduler' = unschedule(scheduler, key)
    /\ hist' = MapRemove(hist, key)
    /\ last_call' = None
    /\ UNCHANGED upd
    /\ UNCHANGED not_sched

UnscheduleAll ==
    /\ ~upd.active
    /\ scheduler' = unschedule_all(scheduler)
    /\ hist' = EmptyMap
    /\ last_call' = None
    /\ UNCHANGED upd
    /\ UNCHANGED not_sched

SetTimeScale(time_scale) ==
    /\ ~upd.active
    /\ scheduler' = set_time_scale(scheduler, time_scale)
    /\ last_call' = None
    /\ UNCHANGED <<upd, hist>>
    /\ UNCHANGED not_sched

SetPaused(paused) ==
    /\ ~upd.active
    /\ scheduler' = set_paused(scheduler, paused)
    /\ last_call' = None
    /\ UNCHANGED <<upd, hist>>
    /\ UNCHANGED not_sched

\* update, lines 105-107: a paused scheduler returns at once
UpdatePaused(delta_time) ==
    /\ ~upd.active
    /\ update_returns_early(scheduler)
    /\ last_call' = [returned_early |-> delta_time]
    /\ UNCHANGED <<scheduler, upd, hist>>
    /\ UNCHANGED not_sched

\* update, lines 109-114: the locals are set and the loop over the timers starts
UpdateBegin(delta_time) ==
    /\ ~upd.active
    /\ ~update_returns_early(scheduler)
    /\ WithinBounds(scheduler, hist, ScaledDelta(scheduler, delta_time))
    /\ upd' = [active |-> TRUE,
               delta_time |-> delta_time,
               scaled_delta |-> ScaledDelta(scheduler, delta_time),
               todo |-> DOMAIN scheduler.timers,
               timers_to_remove |-> <<>>,
               aborted |-> FALSE]
    /\ hist' = HistTick(hist, ScaledDelta(scheduler, delta_time))
    /\ last_call' = None
    /\ UNCHANGED scheduler
    /\ UNCHANGED not_sched

\* update, lines 114-132: one iteration, on any key the loop has not visited.
\* Where line 126 decrements i32::MIN, a build without overflow checks goes on
\* with the wrapped counter, and a build with them panics there, after the
\* callback was called.
UpdateTimer(key) ==
    /\ upd.active
    /\ ~upd.aborted
    /\ key \in upd.todo
    /\ LET r == TimerStep(scheduler.timers[key], upd.scaled_delta)
       IN  /\ \E wraps \in (IF r.overflow THEN BOOLEAN ELSE {TRUE}) :
                 /\ scheduler' = [scheduler EXCEPT !.timers[key] =
                        IF wraps THEN r.timer
                        ELSE [r.timer EXCEPT !.repeat = scheduler.timers[key].repeat]]
                 /\ upd' = IF wraps
                           THEN [upd EXCEPT !.todo = @ \ {key},
                                            !.timers_to_remove =
                                                IF r.finished THEN Append(@, key) ELSE @]
                           ELSE [upd EXCEPT !.aborted = TRUE]
           /\ last_call' = IF r.fired THEN CallbackCall(scheduler, key) ELSE None
           /\ hist' = IF r.fired /\ CallbackCall(scheduler, key) # None
                      THEN [hist EXCEPT ![key].fires = @ + r.calls]
                      ELSE hist
    /\ UNCHANGED not_sched

\* update, lines 134-139: the finished timers are removed and update returns
UpdateEnd ==
    /\ upd.active
    /\ ~upd.aborted
    /\ upd.todo = {}
    /\ scheduler' = RemoveKeys(scheduler, upd.timers_to_remove)
    /\ upd' = Idle
    /\ last_call' = None
    /\ UNCHANGED hist
    /\ UNCHANGED not_sched

(***************************************************************************)
(* Scheduler::update as one call, and two Schedulers side by side: each    *)
(* holds the same timer, `fast` has twice the time_scale of `slow`, and    *)
(* each is given update(delta_time) until its timer has fired.  `wall` is  *)
(* the sum of the delta_time a Scheduler was given.                        *)
(***************************************************************************)
\* update, lines 104-139, from call to return
Scheduler_update(s, delta_time) ==
    IF update_returns_early(s) THEN [scheduler |-> s, fired |-> {}]
    ELSE LET stepped == [key \in DOMAIN s.timers |->
                            TimerStep(s.timers[key], ScaledDelta(s, delta_time))]
             finished == {key \in DOMAIN s.timers : stepped[key].finished}
         IN  [scheduler |->
                  [s EXCEPT !.timers = [key \in DOMAIN s.timers \ finished |->
                                           stepped[key].timer],
                            !.schedule_callbacks =
                                [key \in DOMAIN s.schedule_callbacks \ finished |->
                                    s.schedule_callbacks[key]]],
              fired |-> {key \in DOMAIN s.timers :
                            stepped[key].fired /\ key \in DOMAIN s.schedule_callbacks}]

NoRace == [started |-> FALSE]

\* Scheduler::new, set_time_scale, schedule_simple
Runner(time_scale, interval) ==
    [scheduler |-> schedule_simple(set_time_scale(Scheduler_new, time_scale),
                                   "a", "f", interval),
     wall |-> 0, fired |-> FALSE]

RaceStart(interval, delta_time, time_scale) ==
    /\ ~race.started
    /\ race' = [started |-> TRUE, interval |-> interval, delta_time |-> delta_time,
                time_scale |-> time_scale,
                slow |-> Runner(time_scale, interval),
                fast |-> Runner(2 * time_scale, interval)]
    /\ UNCHANGED not_scale

\* update(delta_time) on a Scheduler whose timer has not fired yet
RunnerUpdate(runner, delta_time) ==
    LET r == Scheduler_update(runner.scheduler, delta_time)
    IN  [scheduler |-> r.scheduler, wall |-> runner.wall + delta_time,
         fired |-> "a" \in r.fired]

RaceUpdateSlow ==
    /\ race.started
    /\ ~race.slow.fired
    /\ race' = [race EXCEPT !.slow = RunnerUpdate(@, race.delta_time)]
    /\ UNCHANGED not_scale

RaceUpdateFast ==
    /\ race.started
    /\ ~race.fast.fired
    /\ race' = [race EXCEPT !.fast = RunnerUpdate(@, race.delta_time)]
    /\ UNCHANGED not_scale

ScaleNext ==
    \/ \E i \in 1 .. MaxInterval, d \in Deltas \ {0}, t \in TimeScales :
          RaceStart(i, d, t)
    \/ RaceUpdateSlow
    \/ RaceUpdateFast

(***************************************************************************)
(* TouchDispatcher                                                         *)
(*                                                                         *)
(* A listener is an Rc<RefCell<dyn TouchListener>>, compared by pointer:   *)
(* here a name.  priority() and swallow_touches() are those of the tests'  *)
(* TestListener, fixed at construction; what a callback returns is free.   *)
(***************************************************************************)
priority(l) == IF l = "L2" THEN 20 ELSE 10

swallow_touches(l) == l \in {"L2", "L3"}

TouchDispatcher_new ==
    [active_touches |-> EmptyMap, listeners |-> <<>>, needs_sort |-> FALSE,
     is_dispatching |-> FALSE, pending_add |-> <<>>, pending_remove |-> <<>>]

\* Vec::retain(|l| !Rc::ptr_eq(l, &listener))
Retain(listeners, listener) == SelectSeq(listeners, LAMBDA l : l # listener)

\* add_listener as it would be without the is_dispatching test
add_listener_AtOnce(d, listener) ==
    [d EXCEPT !.listeners = Append(@, listener), !.needs_sort = TRUE]

add_listener(d, listener) ==
    IF d.is_dispatching
    THEN [d EXCEPT !.pending_add = Append(@, listener)]
    ELSE [d EXCEPT !.listeners = Append(@, listener), !.needs_sort = TRUE]

remove_listener(d, listener) ==
    IF d.is_dispatching
    THEN [d EXCEPT !.pending_remove = Append(@, listener)]
    ELSE [d EXCEPT !.listeners = Retain(@, listener)]

remove_all_listeners(d) ==
    IF ~d.is_dispatching THEN [d EXCEPT !.listeners = <<>>] ELSE d

clear_touches(d) == [d EXCEPT !.active_touches = EmptyMap]

RECURSIVE InsertTouches(_, _)
\* handle_touches_began, lines 90-92
InsertTouches(active, touches) ==
    IF touches = <<>> THEN active
    ELSE InsertTouches(MapInsert(active, Head(touches).id, Head(touches)),
                       Tail(touches))

\* UpdateTouches as it would be with an insert in place of the get_mut
UpdateTouches_Inserts(active, touches) == InsertTouches(active, touches)

RECURSIVE UpdateTouches(_, _)
\* handle_touches_moved, lines 102-106
UpdateTouches(active, touches) ==
    IF touches = <<>> THEN active
    ELSE UpdateTouches(IF Head(touches).id \in DOMAIN active
                       THEN [active EXCEPT ![Head(touches).id] = Head(touches)]
                       ELSE active,
                       Tail(touches))

RECURSIVE RemoveTouches(_, _)
\* handle_touches_ended, lines 116-118; handle_touches_cancelled, lines 128-130
RemoveTouches(active, touches) ==
    IF touches = <<>> THEN active
    ELSE RemoveTouches(MapRemove(active, Head(touches).id), Tail(touches))

\* TrackTouches as it would be if the touches were recorded only when there
\* is a listener to deliver them to
TrackTouches_NeedsListener(d, phase, touches) ==
    IF d.listeners = <<>> THEN d
    ELSE [d EXCEPT !.active_touches =
            CASE phase = "began" -> InsertTouches(@, touches)
              [] phase = "moved" -> UpdateTouches(@, touches)
              [] phase = "ended" -> RemoveTouches(@, touches)
              [] phase = "cancelled" -> RemoveTouches(@, touches)]

\* The part of handle_touches_* that precedes dispatch_touches
TrackTouches(d, phase, touches) ==
    [d EXCEPT !.active_touches =
        CASE phase = "began" -> InsertTouches(@, touches)
          [] phase = "moved" -> UpdateTouches(@, touches)
          [] phase = "ended" -> RemoveTouches(@, touches)
          [] phase = "cancelled" -> RemoveTouches(@, touches)]

\* InsertByPriority as an unstable sort may place l: before its equals
InsertByPriority_BeforeEquals(sorted, l) ==
    LET n == Cardinality({i \in DOMAIN sorted : priority(sorted[i]) > priority(l)})
    IN  SubSeq(sorted, 1, n) \o <<l>> \o SubSeq(sorted, n + 1, Len(sorted))

\* The slot a stable sort by descending priority gives l among sorted listeners:
\* behind every listener whose priority is not lower
InsertByPriority(sorted, l) ==
    LET n == Cardinality({i \in DOMAIN sorted : priority(sorted[i]) >= priority(l)})
    IN  SubSeq(sorted, 1, n) \o <<l>> \o SubSeq(sorted, n + 1, Len(sorted))

RECURSIVE StableSortDesc(_)
\* slice::sort_by with priority_b.cmp(&priority_a): stable, descending
StableSortDesc(ls) ==
    IF ls = <<>> THEN <<>>
    ELSE InsertByPriority(StableSortDesc(SubSeq(ls, 1, Len(ls) - 1)), ls[Len(ls)])

sort_listeners(d) == [d EXCEPT !.listeners = StableSortDesc(@)]

RECURSIVE RetainAll(_, _)
\* process_pending_operations, lines 188-190
RetainAll(listeners, removed) ==
    IF removed = <<>> THEN listeners
    ELSE RetainAll(Retain(listeners, Head(removed)), Tail(removed))

\* process_pending_operations as it would be with the removals only drained
process_pending_operations_DropsRemovals(d) ==
    [d EXCEPT !.listeners = d.listeners \o d.pending_add,
              !.needs_sort = IF d.pending_add # <<>> THEN TRUE ELSE @,
              !.pending_add = <<>>,
              !.pending_remove = <<>>]

process_pending_operations(d) ==
    [d EXCEPT !.listeners = RetainAll(d.listeners \o d.pending_add, d.pending_remove),
              !.needs_sort = IF d.pending_add # <<>> THEN TRUE ELSE @,
              !.pending_add = <<>>,
              !.pending_remove = <<>>]

\* dispatch_touches, lines 146-152: up to the start of the loop
DispatchBegin(d) ==
    [(IF d.needs_sort THEN sort_listeners(d) ELSE d)
        EXCEPT !.needs_sort = FALSE, !.is_dispatching = TRUE]

\* DispatchEnd as it would be with the two loops of process_pending_operations
\* in the other order
DispatchEnd_RemovesFirst(d) ==
    [d EXCEPT !.is_dispatching = FALSE,
              !.listeners = RetainAll(d.listeners, d.pending_remove) \o d.pending_add,
              !.needs_sort = IF d.pending_add # <<>> THEN TRUE ELSE @,
              !.pending_add = <<>>,
              !.pending_remove = <<>>]

\* dispatch_touches, lines 164-167: after the loop
DispatchEnd(d) == process_pending_operations([d EXCEPT !.is_dispatching = FALSE])

\* Swallows as it would be without the swallow_touches() test
Swallows_OnHandled(l, handled) == handled

\* dispatch_touches, line 159: the loop breaks after this callback
Swallows(l, handled) == handled /\ swallow_touches(l)

NoPass == [active |-> FALSE]

NoLog == [order |-> <<>>, snapshot |-> <<>>, regs |-> <<>>, done |-> FALSE,
          removed_all |-> FALSE, dropped |-> {}]

\* History: the registration order once the pending operations are applied
RegisteredAfter(d) == RetainAll(registered \o d.pending_add, d.pending_remove)

(***************************************************************************)
(* TouchDispatcher actions.  A handle_touches_* call runs up to the entry  *)
(* of the first callback; a callback may call back into the dispatcher and *)
(* then returns, which runs the call on to the next callback or to its end.*)
(* A caller registers a listener object once at a time (spec, section 7).  *)
(***************************************************************************)
Pending(d) == Range(d.listeners) \cup Range(d.pending_add)

AddListener(l) ==
    /\ ~pass.active
    /\ l \notin Pending(touch_dispatcher)
    /\ touch_dispatcher' = add_listener(touch_dispatcher, l)
    /\ registered' = Append(registered, l)
    /\ self_removed' = self_removed \ {l}
    /\ log' = NoLog
    /\ UNCHANGED <<pass, live, deferred>>
    /\ UNCHANGED not_touch

RemoveListener(l) ==
    /\ ~pass.active
    /\ touch_dispatcher' = remove_listener(touch_dispatcher, l)
    /\ registered' = Retain(registered, l)
    /\ deferred' = deferred \ {l}
    /\ log' = NoLog
    /\ UNCHANGED <<pass, self_removed, live>>
    /\ UNCHANGED not_touch

RemoveAllListeners ==
    /\ ~pass.active
    /\ touch_dispatcher' = remove_all_listeners(touch_dispatcher)
    /\ registered' = <<>>
    /\ deferred' = {}
    /\ log' = NoLog
    /\ UNCHANGED <<pass, self_removed, live>>
    /\ UNCHANGED not_touch

ClearTouches ==
    /\ ~pass.active
    /\ touch_dispatcher' = clear_touches(touch_dispatcher)
    /\ live' = {}
    /\ log' = NoLog
    /\ UNCHANGED <<pass, registered, self_removed, deferred>>
    /\ UNCHANGED not_touch

\* handle_touches_began/moved/ended/cancelled
HandleTouches(phase, touches) ==
    /\ ~pass.active
    /\ live' = CASE phase = "began" -> live \cup {touches[i].id : i \in DOMAIN touches}
                 [] phase = "moved" -> live
                 [] OTHER -> live \ {touches[i].id : i \in DOMAIN touches}
    /\ LET tracked == TrackTouches(touch_dispatcher, phase, touches)
           begun == DispatchBegin(tracked)
       IN  IF touches = <<>>
           THEN /\ touch_dispatcher' = tracked
                /\ log' = NoLog
                /\ UNCHANGED <<pass, registered>>
           ELSE IF begun.listeners = <<>>
           THEN /\ touch_dispatcher' = DispatchEnd(begun)
                /\ log' = [NoLog EXCEPT !.done = TRUE]
                /\ registered' = RegisteredAfter(begun)
                /\ UNCHANGED pass
           ELSE /\ touch_dispatcher' = begun
                /\ pass' = [active |-> TRUE, phase |-> phase,
                            ids |-> {touches[i].id : i \in DOMAIN touches},
                            index |-> 1, calls |-> 0]
                /\ log' = [NoLog EXCEPT !.snapshot = begun.listeners,
                                        !.regs = registered]
                /\ UNCHANGED registered
    /\ UNCHANGED <<self_removed, deferred>>
    /\ UNCHANGED not_touch

HandleTouchesBegan(touches) == HandleTouches("began", touches)

HandleTouchesMoved(touches) == HandleTouches("moved", touches)

HandleTouchesEnded(touches) == HandleTouches("ended", touches)

HandleTouchesCancelled(touches) == HandleTouches("cancelled", touches)

\* The listener whose callback is running
Current == touch_dispatcher.listeners[pass.index]

CallbackAddListener(l) ==
    /\ pass.active
    /\ pass.calls < MaxCalls
    /\ l \notin Pending(touch_dispatcher)
    /\ touch_dispatcher' = add_listener(touch_dispatcher, l)
    /\ pass' = [pass EXCEPT !.calls = @ + 1]
    /\ self_removed' = self_removed \ {l}
    /\ deferred' = deferred \cup {l}
    /\ UNCHANGED <<log, registered, live>>
    /\ UNCHANGED not_touch

CallbackRemoveListener(l) ==
    /\ pass.active
    /\ pass.calls < MaxCalls
    /\ touch_dispatcher' = remove_listener(touch_dispatcher, l)
    /\ pass' = [pass EXCEPT !.calls = @ + 1]
    /\ self_removed' = IF l = Current THEN self_removed \cup {l} ELSE self_removed
    /\ UNCHANGED <<log, registered, live, deferred>>
    /\ UNCHANGED not_touch

CallbackRemoveAllListeners ==
    /\ pass.active
    /\ pass.calls < MaxCalls
    /\ touch_dispatcher' = remove_all_listeners(touch_dispatcher)
    /\ pass' = [pass EXCEPT !.calls = @ + 1]
    /\ log' = [log EXCEPT !.removed_all = TRUE]
    /\ UNCHANGED <<registered, self_removed, live, deferred>>
    /\ UNCHANGED not_touch

\* dispatch_touches, lines 156-167: a callback returns `handled`
CallbackReturn(handled) ==
    /\ pass.active
    /\ LET order == Append(log.order, [listener |-> Current, handled |-> handled])
       IN  IF Swallows(Current, handled)
              \/ pass.index = Len(touch_dispatcher.listeners)
           THEN /\ touch_dispatcher' = DispatchEnd(touch_dispatcher)
                /\ pass' = NoPass
                /\ log' = [log EXCEPT !.order = order, !.done = TRUE,
                                      !.dropped = Range(touch_dispatcher.pending_add)
                                          \cap Range(touch_dispatcher.pending_remove)]
                /\ registered' = RegisteredAfter(touch_dispatcher)
                /\ deferred' = deferred \ Range(touch_dispatcher.pending_remove)
           ELSE /\ pass' = [pass EXCEPT !.index = @ + 1]
                /\ log' = [log EXCEPT !.order = order]
                /\ UNCHANGED <<touch_dispatcher, registered, deferred>>
    /\ UNCHANGED <<self_removed, live>>
    /\ UNCHANGED not_touch

TouchInit ==
    /\ touch_dispatcher = TouchDispatcher_new
    /\ pass = NoPass
    /\ log = NoLog
    /\ registered = <<>>
    /\ self_removed = {}
    /\ live = {}
    /\ deferred = {}

\* The listeners and their callbacks' calls, a single finger touching
TouchNext ==
    \/ \E l \in Listeners : AddListener(l)
    \/ \E l \in Listeners : RemoveListener(l)
    \/ RemoveAllListeners
    \/ ClearTouches
    \/ \E touches \in Taps : HandleTouchesBegan(touches)
    \/ \E touches \in Taps : HandleTouchesMoved(touches)
    \/ \E touches \in Taps : HandleTouchesEnded(touches)
    \/ \E touches \in Taps : HandleTouchesCancelled(touches)
    \/ \E l \in Listeners : CallbackAddListener(l)
    \/ \E l \in Listeners : CallbackRemoveListener(l)
    \/ CallbackRemoveAllListeners
    \/ \E handled \in BOOLEAN : CallbackReturn(handled)

\* The touches of every batch, the callbacks making no calls of their own
TouchTrackNext ==
    \/ \E l \in Listeners : AddListener(l)
    \/ \E l \in Listeners : RemoveListener(l)
    \/ ClearTouches
    \/ \E touches \in Batches : HandleTouchesBegan(touches)
    \/ \E touches \in Batches : HandleTouchesMoved(touches)
    \/ \E touches \in Batches : HandleTouchesEnded(touches)
    \/ \E touches \in Batches : HandleTouchesCancelled(touches)
    \/ \E handled \in BOOLEAN : CallbackReturn(handled)

(***************************************************************************)
(* EventDispatcher                                                         *)
(*                                                                         *)
(* A listener is a RefPtr<RefCell<EventListener>>: here a name, its state  *)
(* in event_listener.  Vec indices are the source's, counted from 0.       *)
(***************************************************************************)
\* EventListener::new, with the type each name is constructed with
ListenerTypeOf(l) ==
    CASE l \in {"K1", "K2"} -> "Keyboard"
      [] l = "M1" -> "Mouse"
      [] l = "T1" -> "TouchAllAtOnce"

EventListener_new(l) ==
    [listener_type |-> ListenerTypeOf(l), enabled |-> TRUE, paused |-> FALSE]

EventDispatcher_new ==
    [listeners |-> <<>>, listeners_map |-> EmptyMap,
     to_removed_listeners |-> <<>>, in_update |-> FALSE]

\* self.listeners[index]
At(listeners, index) == listeners[index + 1]

\* Vec::remove(index), for an index in range
VecRemove(listeners, index) ==
    SubSeq(listeners, 1, index) \o SubSeq(listeners, index + 2, Len(listeners))

\* dispatch_event, lines 319-325
ListenerTypeFor(event_type) ==
    CASE event_type = "Touch" -> "TouchOneByOne"
      [] event_type = "Keyboard" -> "Keyboard"
      [] event_type = "Mouse" -> "Mouse"
      [] event_type = "Acceleration" -> "Acceleration"
      [] event_type = "Custom" -> "Custom"

EventDispatcher_add_listener(d, objects, listener) ==
    LET index == Len(d.listeners)
        listener_type == objects[listener].listener_type
        bucket == IF listener_type \in DOMAIN d.listeners_map
                  THEN d.listeners_map[listener_type] ELSE <<>>
    IN  [d EXCEPT !.listeners = Append(@, listener),
                  !.listeners_map = MapInsert(@, listener_type, Append(bucket, index))]

\* remove_listener: the dispatcher afterwards, and whether Vec::remove panicked
EventDispatcher_remove_listener(d, index) ==
    IF d.in_update
    THEN [d |-> [d EXCEPT !.to_removed_listeners = Append(@, index)],
          panicked |-> FALSE]
    ELSE IF index < Len(d.listeners)
    THEN [d |-> [d EXCEPT !.listeners = VecRemove(@, index)], panicked |-> FALSE]
    ELSE [d |-> d, panicked |-> TRUE]

EventDispatcher_remove_all_listeners(d) ==
    [d EXCEPT !.listeners = <<>>, !.listeners_map = EmptyMap]

\* set_enabled: the listener objects afterwards
EventDispatcher_set_enabled(d, objects, listener_type, enabled) ==
    IF listener_type \in DOMAIN d.listeners_map
    THEN LET indices == d.listeners_map[listener_type]
             hit == {At(d.listeners, indices[i]) :
                        i \in {j \in DOMAIN indices : indices[j] < Len(d.listeners)}}
         IN  [l \in DOMAIN objects |->
                 IF l \in hit THEN [objects[l] EXCEPT !.enabled = enabled]
                 ELSE objects[l]]
    ELSE objects

\* dispatch_event, lines 330-334: the first position of the bucket, from
\* `from` on, whose listener is invoked; 0 when the loop runs out
RECURSIVE NextInvoked(_, _, _, _)
NextInvoked(d, objects, indices, from) ==
    IF from > Len(indices) THEN 0
    ELSE IF /\ indices[from] < Len(d.listeners)
            /\ objects[At(d.listeners, indices[from])].enabled
            /\ ~objects[At(d.listeners, indices[from])].paused
    THEN from
    ELSE NextInvoked(d, objects, indices, from + 1)

\* dispatch_event, lines 347-350: the queued removals, applied in queue order
RECURSIVE RemoveQueued(_, _)
RemoveQueued(listeners, queue) ==
    IF queue = <<>> THEN [listeners |-> listeners, panicked |-> FALSE]
    ELSE IF Head(queue) < Len(listeners)
    THEN RemoveQueued(VecRemove(listeners, Head(queue)), Tail(queue))
    ELSE [listeners |-> listeners, panicked |-> TRUE]

\* dispatch_event, lines 344-350: after the loop
DispatchEventEnd(d) ==
    LET r == RemoveQueued(d.listeners, d.to_removed_listeners)
    IN  [d |-> [d EXCEPT !.in_update = FALSE,
                         !.listeners = r.listeners,
                         !.to_removed_listeners = IF r.panicked THEN @ ELSE <<>>],
         panicked |-> r.panicked]

NoEvPass == [active |-> FALSE]

NoEvLog == [event_type |-> "", order |-> <<>>, done |-> FALSE, set_enabled |-> <<>>]

(***************************************************************************)
(* EventDispatcher actions.  Nothing runs after a panic.                   *)
(***************************************************************************)
MapEntries(d) ==
    LET Count[ts \in SUBSET DOMAIN d.listeners_map] ==
            IF ts = {} THEN 0
            ELSE LET t == CHOOSE x \in ts : TRUE
                 IN  Len(d.listeners_map[t]) + Count[ts \ {t}]
    IN  Count[DOMAIN d.listeners_map]

EvIdle == ~ev_pass.active /\ ~panicked

EvAddListener(l) ==
    /\ EvIdle
    /\ l \notin Range(event_dispatcher.listeners)
    /\ MapEntries(event_dispatcher) < MaxAdds
    /\ event_dispatcher' = EventDispatcher_add_listener(event_dispatcher, event_listener, l)
    /\ ev_log' = NoEvLog
    /\ UNCHANGED <<event_listener, ev_pass, panicked>>
    /\ UNCHANGED not_event

EvRemoveListener(index) ==
    /\ EvIdle
    /\ event_dispatcher' = EventDispatcher_remove_listener(event_dispatcher, index).d
    /\ panicked' = EventDispatcher_remove_listener(event_dispatcher, index).panicked
    /\ ev_log' = NoEvLog
    /\ UNCHANGED <<event_listener, ev_pass>>
    /\ UNCHANGED not_event

EvRemoveAllListeners ==
    /\ EvIdle
    /\ event_dispatcher' = EventDispatcher_remove_all_listeners(event_dispatcher)
    /\ ev_log' = NoEvLog
    /\ UNCHANGED <<event_listener, ev_pass, panicked>>
    /\ UNCHANGED not_event

EvSetEnabled(listener_type, enabled) ==
    /\ EvIdle
    /\ event_listener' = EventDispatcher_set_enabled(event_dispatcher, event_listener,
                                                     listener_type, enabled)
    /\ ev_log' = [NoEvLog EXCEPT !.set_enabled =
                     <<[listener_type |-> listener_type, enabled |-> enabled]>>]
    /\ UNCHANGED <<event_dispatcher, ev_pass, panicked>>
    /\ UNCHANGED not_event

\* EventListener::set_paused, called on the listener object by its owner
ListenerSetPaused(l, paused) ==
    /\ EvIdle
    /\ l \in Range(event_dispatcher.listeners)
    /\ event_listener' = [event_listener EXCEPT ![l].paused = paused]
    /\ ev_log' = NoEvLog
    /\ UNCHANGED <<event_dispatcher, ev_pass, panicked>>
    /\ UNCHANGED not_event

\* dispatch_event, from position `from` of the bucket on: into the next
\* callback, or out of the loop and to the end of the call
RunFrom(d, event, indices, from, order) ==
    LET at == NextInvoked(d, event_listener, indices, from)
    IN  IF at = 0
        THEN /\ event_dispatcher' = DispatchEventEnd(d).d
             /\ panicked' = DispatchEventEnd(d).panicked
             /\ ev_pass' = NoEvPass
             /\ ev_log' = [event_type |-> event.event_type, order |-> order,
                           done |-> TRUE, set_enabled |-> <<>>]
        ELSE /\ event_dispatcher' = d
             /\ ev_pass' = [active |-> TRUE, event |-> event, indices |-> indices,
                            at |-> at]
             /\ ev_log' = [event_type |-> event.event_type,
                           order |-> Append(order, At(d.listeners, indices[at])),
                           done |-> FALSE, set_enabled |-> <<>>]
             /\ UNCHANGED panicked

\* dispatch_event with a new Event of the type (Event::new: not stopped)
DispatchEvent(event_type) ==
    /\ EvIdle
    /\ IF ListenerTypeFor(event_type) \in DOMAIN event_dispatcher.listeners_map
       THEN RunFrom([event_dispatcher EXCEPT !.in_update = TRUE],
                    [event_type |-> event_type, stopped |-> FALSE],
                    event_dispatcher.listeners_map[ListenerTypeFor(event_type)],
                    1, <<>>)
       ELSE /\ ev_log' = [event_type |-> event_type, order |-> <<>>, done |-> TRUE,
                           set_enabled |-> <<>>]
            /\ UNCHANGED <<event_dispatcher, ev_pass, panicked>>
    /\ UNCHANGED event_listener
    /\ UNCHANGED not_event

\* Event::stop, called by the running callback
EvCallbackStop ==
    /\ ev_pass.active
    /\ ~ev_pass.event.stopped
    /\ ev_pass' = [ev_pass EXCEPT !.event.stopped = TRUE]
    /\ UNCHANGED <<event_dispatcher, event_listener, ev_log, panicked>>
    /\ UNCHANGED not_event

\* remove_listener, called by the running callback
EvCallbackRemoveListener(index) ==
    /\ ev_pass.active
    /\ Len(event_dispatcher.to_removed_listeners) < MaxRemovals
    /\ event_dispatcher' = EventDispatcher_remove_listener(event_dispatcher, index).d
    /\ UNCHANGED <<event_listener, ev_pass, ev_log, panicked>>
    /\ UNCHANGED not_event

\* dispatch_event, lines 337-350: the callback returns
EvCallbackReturn ==
    /\ ev_pass.active
    /\ IF ev_pass.event.stopped
       THEN RunFrom(event_dispatcher, ev_pass.event, ev_pass.indices,
                    Len(ev_pass.indices) + 1, ev_log.order)
       ELSE RunFrom(event_dispatcher, ev_pass.event, ev_pass.indices,
                    ev_pass.at + 1, ev_log.order)
    /\ UNCHANGED event_listener
    /\ UNCHANGED not_event

EventInit ==
    /\ event_dispatcher = EventDispatcher_new
    /\ event_listener = [l \in EventListeners |-> EventListener_new(l)]
    /\ ev_pass = NoEvPass
    /\ ev_log = NoEvLog
    /\ panicked = FALSE

\* The listeners stay as constructed: enabled and not paused
EventNext ==
    \/ \E l \in EventListeners : EvAddListener(l)
    \/ \E index \in Indices : EvRemoveListener(index)
    \/ EvRemoveAllListeners
    \/ \E event_type \in EventTypes : DispatchEvent(event_type)
    \/ EvCallbackStop
    \/ \E index \in Indices : EvCallbackRemoveListener(index)
    \/ EvCallbackReturn

\* The listeners' flags in use, the callbacks making no calls of their own
EventFlagsNext ==
    \/ \E l \in {"K1", "K2", "M1"} : EvAddListener(l)
    \/ \E index \in Indices : EvRemoveListener(index)
    \/ EvRemoveAllListeners
    \/ \E event_type \in {"Keyboard", "Mouse"} : DispatchEvent(event_type)
    \/ EvCallbackReturn
    \/ \E t \in EventListenerTypes, enabled \in BOOLEAN : EvSetEnabled(t, enabled)
    \/ \E l \in EventListeners, paused \in BOOLEAN : ListenerSetPaused(l, paused)

(***************************************************************************)
(* ActionManager                                                           *)
(*                                                                         *)
(* An action is a RefPtr<Action>: here its name, its tag, and whether the  *)
(* manager's RefPtr is the only one (Rc strong count 1) or the caller kept *)
(* a clone.  A bucket key is `&target as *const _ as usize` in add_action, *)
(* the address of the parameter, and `target as *const _ as usize` in the  *)
(* other methods, the address of the caller's RefPtr<Node>: an address     *)
(* that the build and the call site determine, here any of Addrs.          *)
(***************************************************************************)
\* Action::set_tag before the action is handed over: the tag of each name
TagOf(a) == IF a = "a3" THEN 2 ELSE 1

\* Action::get_tag
get_tag(action) == action.tag

ActionManager_new ==
    [action_hash |-> EmptyMap, current_action |-> None,
     current_action_removed |-> FALSE, target_map |-> EmptyMap]

ActionManager_add_action(m, action, target_id, paused) ==
    IF target_id \in DOMAIN m.target_map
    THEN [m EXCEPT !.target_map[target_id] = Append(@, action)]
    ELSE [m EXCEPT !.target_map = MapInsert(@, target_id, <<action>>)]

ActionManager_remove_action_by_tag(m, tag, target_id) ==
    IF target_id \in DOMAIN m.target_map
    THEN [m EXCEPT !.target_map[target_id] =
                       SelectSeq(@, LAMBDA action : get_tag(action) # tag)]
    ELSE m

ActionManager_remove_all_actions(m) == [m EXCEPT !.target_map = EmptyMap]

ActionManager_remove_all_actions_from_target(m, target_id) ==
    [m EXCEPT !.target_map = MapRemove(@, target_id)]

\* The first action of the list with the tag, or None
FirstWithTag(actions, tag) ==
    IF \E i \in DOMAIN actions : get_tag(actions[i]) = tag
    THEN actions[CHOOSE i \in DOMAIN actions :
                    /\ get_tag(actions[i]) = tag
                    /\ \A j \in 1 .. i - 1 : get_tag(actions[j]) # tag]
    ELSE None

ActionManager_get_action_by_tag(m, tag, target_id) ==
    IF target_id \in DOMAIN m.target_map
    THEN FirstWithTag(m.target_map[target_id], tag)
    ELSE None

\* The orders in which a loop over the HashMap may visit its keys
KeyOrders(m) ==
    {order \in [1 .. Cardinality(DOMAIN m) -> DOMAIN m] :
        \A i, j \in DOMAIN order : order[i] = order[j] => i = j}

RECURSIVE Flatten(_, _)
\* update, lines 285-289: the actions in the order the two loops reach them
Flatten(m, order) ==
    IF order = <<>> THEN <<>>
    ELSE m[Head(order)] \o Flatten(m, Tail(order))

\* update, line 287: RefPtr::borrow_mut is Rc::get_mut(..).unwrap(), which
\* panics on an action whose Rc is shared; step is called on those before it
ActionManager_update(m, order, dt) ==
    LET visited == Flatten(m.target_map, order)
        shared == {i \in DOMAIN visited : ~visited[i].unique}
        stop == IF shared = {} THEN Len(visited) + 1
                ELSE CHOOSE i \in shared : \A j \in shared : i <= j
    IN  [stepped |-> [i \in 1 .. stop - 1 |-> visited[i].id],
         panicked |-> shared # {}]

\* The names of the actions in the buckets
Attached(m) ==
    UNION {{m.target_map[k][i].id : i \in DOMAIN m.target_map[k]} :
              k \in DOMAIN m.target_map}

\* History: the entries of the actions that are still in a bucket
StillAttached(m) == SelectSeq(added, LAMBDA e : e.action \in Attached(m))

AmIdle == ~("panicked" \in DOMAIN am_call /\ am_call.panicked)

(***************************************************************************)
(* ActionManager actions.  Nothing runs after a panic.  An action object   *)
(* is attached once at a time.                                             *)
(***************************************************************************)
AddAction(a, target, paused, kept, addr) ==
    /\ AmIdle
    /\ a \notin Attached(action_manager)
    /\ action_manager' =
           ActionManager_add_action(action_manager,
               [id |-> a, tag |-> TagOf(a), unique |-> ~kept], addr, paused)
    /\ added' = Append(added, [action |-> a, target |-> target])
    /\ am_call' = [op |-> "add_action", action |-> a, target |-> target]
    /\ UNCHANGED not_action

RemoveActionByTag(tag, target, addr) ==
    /\ AmIdle
    /\ action_manager' = ActionManager_remove_action_by_tag(action_manager, tag, addr)
    /\ added' = StillAttached(action_manager')
    /\ am_call' = [op |-> "remove_action_by_tag", tag |-> tag, target |-> target,
                   addr |-> addr]
    /\ UNCHANGED not_action

RemoveAllActions ==
    /\ AmIdle
    /\ action_manager' = ActionManager_remove_all_actions(action_manager)
    /\ added' = <<>>
    /\ am_call' = [op |-> "remove_all_actions"]
    /\ UNCHANGED not_action

RemoveAllActionsFromTarget(target, addr) ==
    /\ AmIdle
    /\ action_manager' =
           ActionManager_remove_all_actions_from_target(action_manager, addr)
    /\ added' = StillAttached(action_manager')
    /\ am_call' = [op |-> "remove_all_actions_from_target", target |-> target,
                   addr |-> addr]
    /\ UNCHANGED not_action

GetActionByTag(tag, target, addr) ==
    /\ AmIdle
    /\ am_call' = [op |-> "get_action_by_tag", tag |-> tag, target |-> target,
                   addr |-> addr,
                   result |-> ActionManager_get_action_by_tag(action_manager, tag, addr)]
    /\ UNCHANGED <<action_manager, added>>
    /\ UNCHANGED not_action

ActionUpdate(dt) ==
    /\ AmIdle
    /\ \E order \in KeyOrders(action_manager.target_map) :
          am_call' = [op |-> "update", dt |-> dt,
                      stepped |-> ActionManager_update(action_manager, order, dt).stepped,
                      panicked |-> ActionManager_update(action_manager, order, dt).panicked]
    /\ UNCHANGED <<action_manager, added>>
    /\ UNCHANGED not_action

ActionInit ==
    /\ action_manager = ActionManager_new
    /\ added = <<>>
    /\ am_call = None

ActionNext ==
    \/ \E a \in Actions, target \in Targets, paused \in BOOLEAN, kept \in BOOLEAN,
          addr \in Addrs : AddAction(a, target, paused, kept, addr)
    \/ \E tag \in Tags, target \in Targets, addr \in Addrs :
          RemoveActionByTag(tag, target, addr)
    \/ RemoveAllActions
    \/ \E target \in Targets, addr \in Addrs : RemoveAllActionsFromTarget(target, addr)
    \/ \E tag \in Tags, target \in Targets, addr \in Addrs :
          GetActionByTag(tag, target, addr)
    \/ \E dt \in Deltas : ActionUpdate(dt)

(***************************************************************************)
(* Director                                                                *)
(*                                                                         *)
(* main_loop reads the clock: the time since the last call is any delta.   *)
(***************************************************************************)
Director_new ==
    [running_scene |-> "s0", next_scene |-> <<>>, scheduler |-> Scheduler_new,
     delta_time |-> 0, total_time |-> 0, is_paused |-> FALSE, is_cleanup |-> FALSE]

\* main_loop, lines 110-113: the update calls of one tick, in order
UpdateCalls(d) ==
    IF ~d.is_paused
    THEN <<[callee |-> "scheduler", delta_time |-> d.delta_time]>>
    ELSE <<>>

\* main_loop, lines 102-121, with `elapsed` the time read off the clock
main_loop(d, elapsed) ==
    LET timed == [d EXCEPT !.delta_time = elapsed, !.total_time = @ + elapsed]
        updated == IF ~timed.is_paused
                   THEN [timed EXCEPT !.scheduler =
                            Scheduler_update(@, timed.delta_time).scheduler]
                   ELSE timed
    IN  IF updated.next_scene # <<>>
        THEN [updated EXCEPT !.running_scene = updated.next_scene[1],
                             !.next_scene = <<>>]
        ELSE updated

\* Some(scene) is <<scene>>, None is <<>>
run_scene(d, scene) == [d EXCEPT !.next_scene = <<scene>>]

replace_scene(d, scene) == [d EXCEPT !.running_scene = scene]

pause(d) == [d EXCEPT !.is_paused = TRUE]

resume(d) == [d EXCEPT !.is_paused = FALSE]

NoFrame == [ticked |-> FALSE]

MainLoop(elapsed) ==
    /\ director.total_time + elapsed <= MaxClock
    /\ director' = main_loop(director, elapsed)
    /\ frame' = [ticked |-> TRUE, is_paused |-> director.is_paused,
                 delta_time |-> elapsed,
                 calls |-> UpdateCalls([director EXCEPT !.delta_time = elapsed])]
    /\ UNCHANGED not_director

RunScene(scene) ==
    /\ director' = run_scene(director, scene)
    /\ frame' = NoFrame
    /\ UNCHANGED not_director

ReplaceScene(scene) ==
    /\ director' = replace_scene(director, scene)
    /\ frame' = NoFrame
    /\ UNCHANGED not_director

Pause ==
    /\ director' = pause(director)
    /\ frame' = NoFrame
    /\ UNCHANGED not_director

Resume ==
    /\ director' = resume(director)
    /\ frame' = NoFrame
    /\ UNCHANGED not_director

DirectorInit ==
    /\ director = Director_new
    /\ frame = NoFrame

DirectorNext ==
    \/ \E elapsed \in Deltas : MainLoop(elapsed)
    \/ \E scene \in Scenes : RunScene(scene)
    \/ \E scene \in Scenes : ReplaceScene(scene)
    \/ Pause
    \/ Resume

SchedInit ==
    /\ scheduler = Scheduler_new
    /\ upd = Idle
    /\ last_call = None
    /\ hist = EmptyMap

ScaleInit == race = NoRace

Init ==
    SchedInit /\ TouchInit /\ EventInit /\ ScaleInit /\ ActionInit /\ DirectorInit

\* The timer operations alone: time_scale and paused keep their initial values.
TimerNext ==
    \/ \E k \in Keys, c \in Callbacks, i \in Intervals, r \in Repeats :
          Schedule(k, c, i, r)
    \/ \E k \in Keys, c \in Callbacks, i \in Intervals : ScheduleSimple(k, c, i)
    \/ \E k \in Keys : Unschedule(k)
    \/ UnscheduleAll
    \/ \E d \in Deltas : UpdateBegin(d)
    \/ \E k \in Keys : UpdateTimer(k)
    \/ UpdateEnd

\* time_scale and paused in use, every timer given the one callback
SchedNext ==
    \/ \E k \in Keys, i \in Intervals, r \in Repeats : Schedule(k, "f", i, r)
    \/ \E k \in Keys : Unschedule(k)
    \/ \E d \in Deltas : UpdateBegin(d)
    \/ \E k \in Keys : UpdateTimer(k)
    \/ UpdateEnd
    \/ \E t \in TimeScales : SetTimeScale(t)
    \/ \E p \in BOOLEAN : SetPaused(p)
    \/ \E d \in Deltas : UpdatePaused(d)

(***************************************************************************)
(* A Scheduler that has been running for a long time.  Its timer "a" was   *)
(* scheduled with the repeat count `repeat` and has fired since, so that   *)
(* its counter stands at `start`: every firing decrements the counter by   *)
(* one (line 126), and a timer whose interval is 0 fires on every update.  *)
(* The counters chosen are the ones next to the values where the countdown *)
(* changes its course: 0 and the ends of i32.                              *)
(***************************************************************************)
LongRepeats == {-1, 0}

Countdowns ==
    {[repeat |-> Forever, start |-> Forever],   \* schedule_simple, not yet fired
     [repeat |-> Forever, start |-> 2],         \* ... fired Forever - 2 times
     [repeat |-> Forever, start |-> 1],         \* ... fired Forever - 1 times
     [repeat |-> 0, start |-> 0],               \* schedule(.., 0), not yet fired
     [repeat |-> 0, start |-> MinI32 + 1],      \* ... fired 2^31 - 1 times
     [repeat |-> -1, start |-> MinI32 + 1],     \* schedule(.., -1), fired 2^31 - 2 times
     [repeat |-> -1, start |-> MinI32]}         \* ... fired 2^31 - 1 times

LongRunInit ==
    /\ \E c \in Countdowns, interval \in {0, 1} :
          /\ scheduler =
                [schedule(Scheduler_new, "a", "f", interval, c.repeat)
                    EXCEPT !.timers["a"].repeat = c.start]
          /\ hist = MapInsert(EmptyMap, "a",
                       [interval |-> interval, repeat |-> c.repeat,
                        start |-> c.start, total |-> 0, fires |-> 0])
    /\ upd = Idle
    /\ last_call = None
    /\ TouchInit /\ EventInit /\ ScaleInit /\ ActionInit /\ DirectorInit

LongRunNext ==
    \/ \E k \in Keys, i \in {0, 1}, r \in LongRepeats : Schedule(k, "f", i, r)
    \/ \E k \in Keys, i \in {0, 1} : ScheduleSimple(k, "f", i)
    \/ \E k \in Keys : Unschedule(k)
    \/ UnscheduleAll
    \/ \E d \in Deltas : UpdateBegin(d)
    \/ \E k \in Keys : UpdateTimer(k)
    \/ UpdateEnd

\* A Scheduler whose timer has been firing for a long time
SpecLongRun == LongRunInit /\ [][LongRunNext]_vars

\* A Scheduler as constructed: time_scale 1, not paused
SpecTimer == Init /\ [][TimerNext]_vars

\* A Scheduler with set_time_scale and set_paused in use
SpecSched == Init /\ [][SchedNext]_vars

\* A TouchDispatcher and its listeners
SpecTouch == Init /\ [][TouchNext]_vars

\* A TouchDispatcher and its active touches
SpecTouchTrack == Init /\ [][TouchTrackNext]_vars

\* An EventDispatcher whose listeners stay enabled and not paused
SpecEvent == Init /\ [][EventNext]_vars

\* An EventDispatcher with set_enabled and set_paused in use
SpecEventFlags == Init /\ [][EventFlagsNext]_vars

\* Two Schedulers whose time_scale differs by a factor of two
SpecScale == Init /\ [][ScaleNext]_vars

\* An ActionManager
SpecAction == Init /\ [][ActionNext]_vars

\* A Director and its main loop
SpecDirector == Init /\ [][DirectorNext]_vars

Spec == SpecSched

(***************************************************************************)
(* Properties of the Scheduler.                                            *)
(***************************************************************************)
TimersOf(s) == DOMAIN s.timers

\* The step just taken was the loop iteration of update on key k
Visits(k) == upd.active /\ k \in upd.todo /\ upd'.active /\ k \notin upd'.todo

\* C1: with time_scale 1 and the scheduler not paused, once the deltas given
\* to update since a timer of interval i > 0 and repeat r >= 1 was scheduled
\* sum to k*i, its callback has been invoked exactly min(k, r) times, however
\* the time was split over the update calls.
C1_FiresMinOfKAndR ==
    ~upd.active =>
        \A key \in DOMAIN hist :
            (/\ hist[key].interval > 0
             /\ hist[key].repeat >= 1
             /\ hist[key].total % hist[key].interval = 0)
            => hist[key].fires =
                   Min(hist[key].total \div hist[key].interval, hist[key].repeat)

\* C7: a timer whose repeat counter reaches 0 on firing stays in the
\* Scheduler while update still advances the other timers, is gone (timer and
\* callback entry) when update returns, and is never invoked afterwards.
C7_FinishedTimerRemovedAtEnd ==
    /\ DOMAIN scheduler.timers = DOMAIN scheduler.schedule_callbacks
    /\ upd.active =>
          /\ \A i \in DOMAIN upd.timers_to_remove :
                /\ upd.timers_to_remove[i] \in TimersOf(scheduler)
                /\ scheduler.timers[upd.timers_to_remove[i]].repeat = 0
          /\ \A key \in TimersOf(scheduler) \ upd.todo :
                (scheduler.timers[key].repeat = 0 /\ hist[key].fires > 0)
                => key \in Range(upd.timers_to_remove)
    /\ ~upd.active =>
          \A key \in TimersOf(scheduler) :
              scheduler.timers[key].repeat = 0 => hist[key].fires = 0
    /\ \A key \in DOMAIN hist \ TimersOf(scheduler) :
          hist[key].fires = hist[key].repeat

\* C7 witness: a finished timer waits for removal while another is still to be advanced
C7_Witness ==
    /\ upd.active
    /\ upd.timers_to_remove # <<>>
    /\ upd.todo # {}
    /\ upd.scaled_delta > 0

\* C7 witness of the second half: a later update has run after the removal
C7_WitnessLater ==
    /\ upd.active
    /\ \E key \in DOMAIN hist \ TimersOf(scheduler) :
          hist[key].total > hist[key].repeat * hist[key].interval

\* C8: an iteration of update on a timer whose elapsed reaches its interval
\* leaves elapsed = old elapsed + delta_time*time_scale - interval, invokes the
\* callback with the interval and lowers repeat by 1; otherwise it only adds
\* the scaled delta to elapsed, invokes nothing and keeps repeat.
C8_FireStep ==
    [][\A key \in Keys :
          Visits(key) =>
              LET t == scheduler.timers[key]
                  u == scheduler'.timers[key]
                  e == t.elapsed + upd.delta_time * scheduler.time_scale
              IN  IF e >= t.interval
                  THEN /\ u.elapsed = e - t.interval
                       /\ u.repeat = t.repeat - 1
                       /\ last_call' = [key |-> key, callback |-> t.callback,
                                        arg |-> t.interval]
                       /\ hist'[key].fires = hist[key].fires + 1
                  ELSE /\ u.elapsed = e
                       /\ u.repeat = t.repeat
                       /\ last_call' = None
                       /\ hist'[key].fires = hist[key].fires]_vars

\* C8 witness: a timer has just fired and kept an overshoot
C8_Witness ==
    /\ upd.active
    /\ "callback" \in DOMAIN last_call
    /\ scheduler.timers[last_call.key].elapsed > 0
    /\ scheduler.timers[last_call.key].interval > 0
    /\ scheduler.time_scale = 2

\* C9: schedule with interval < 0 stores the interval 0, and the callback
\* of such a timer is invoked with 0.
C9_NegativeIntervalIsZero ==
    \A key \in TimersOf(scheduler) :
        hist[key].interval < 0 =>
            /\ scheduler.timers[key].interval = 0
            /\ ("callback" \in DOMAIN last_call /\ last_call.key = key)
                   => last_call.arg = 0

\* C10: one timer and one callback entry per key; schedule on a key that has
\* a timer replaces both (elapsed 0, the new interval, repeat and callback),
\* leaves the other timers and the number of timers alone, and update only
\* ever invokes the callback now stored under the key.
C10_RescheduleReplaces ==
    [][/\ DOMAIN scheduler'.timers = DOMAIN scheduler'.schedule_callbacks
       /\ \A key \in TimersOf(scheduler') :
             scheduler'.schedule_callbacks[key] = scheduler'.timers[key].callback
       /\ "callback" \in DOMAIN last_call' =>
             /\ last_call'.key \in TimersOf(scheduler')
             /\ last_call'.callback = scheduler'.schedule_callbacks[last_call'.key]
       /\ "replaced" \in DOMAIN last_call' =>
             LET key == last_call'.replaced
             IN  /\ key \in TimersOf(scheduler)
                 /\ scheduler'.timers[key] =
                       [callback |-> last_call'.by, interval |-> hist'[key].interval,
                        elapsed |-> 0, repeat |-> hist'[key].repeat, paused |-> FALSE]
                 /\ scheduler'.schedule_callbacks[key] = last_call'.by
                 /\ TimersOf(scheduler') = TimersOf(scheduler)
                 /\ Cardinality(TimersOf(scheduler')) = Cardinality(TimersOf(scheduler))
                 /\ \A other \in TimersOf(scheduler) \ {key} :
                       scheduler'.timers[other] = scheduler.timers[other]]_vars

\* C10 witness: schedule has just replaced the timer of a key, one of two timers
C10_Witness ==
    /\ "replaced" \in DOMAIN last_call
    /\ scheduler.timers[last_call.replaced].callback = "g"
    /\ scheduler.timers[last_call.replaced].elapsed = 0
    /\ Cardinality(TimersOf(scheduler)) = 2

\* C11: while the Scheduler is paused, update(dt) starts no pass over the
\* timers for any dt: it invokes no callback and leaves the Scheduler as it
\* was, so no timer's elapsed or repeat changes and none is removed; and
\* set_paused leaves every timer's elapsed and repeat as they were, so after
\* set_paused(false) the timers go on from the values they had.
C11_PausedUpdateChangesNothing ==
    [][scheduler.paused =>
          /\ ~upd.active
          /\ upd' = upd
          /\ "callback" \notin DOMAIN last_call'
          /\ "returned_early" \in DOMAIN last_call' =>
                 /\ scheduler' = scheduler
                 /\ hist' = hist
          /\ \A key \in TimersOf(scheduler) :
                 (key \in DOMAIN hist' /\ hist'[key] = hist[key]) =>
                     /\ key \in TimersOf(scheduler')
                     /\ scheduler'.timers[key].elapsed = scheduler.timers[key].elapsed
                     /\ scheduler'.timers[key].repeat = scheduler.timers[key].repeat]_vars

\* C11 witness: update has just returned from a paused Scheduler, given a
\* delta that would have fired a timer that is part of the way to its interval
C11_Witness ==
    /\ scheduler.paused
    /\ "returned_early" \in DOMAIN last_call
    /\ \E key \in TimersOf(scheduler) :
          /\ scheduler.timers[key].elapsed > 0
          /\ scheduler.timers[key].elapsed < scheduler.timers[key].interval
          /\ scheduler.timers[key].elapsed + ScaledDelta(scheduler, last_call.returned_early)
                 >= scheduler.timers[key].interval

\* The timer of a runner has fired on the first update whose scaled time
\* reaches the interval, and not before
FiresOnFirstReach(runner, time_scale) ==
    IF runner.fired
    THEN /\ runner.wall * time_scale >= race.interval
         /\ (runner.wall - race.delta_time) * time_scale < race.interval
    ELSE runner.wall * time_scale < race.interval

\* C12 as claimed: a timer of interval i > 0 given update(dt) with a fixed dt
\* first fires on the first update n with n*dt*time_scale >= i, and the sum
\* of the dt given until it fires is halved when time_scale is doubled.
C12_DoublingHalvesTimeToFire ==
    race.started =>
        /\ FiresOnFirstReach(race.slow, race.time_scale)
        /\ FiresOnFirstReach(race.fast, 2 * race.time_scale)
        /\ (race.slow.fired /\ race.fast.fired) => 2 * race.fast.wall = race.slow.wall

\* C12 amended: the timer first fires on the first update n with
\* n*dt*time_scale >= i; doubling time_scale halves the sum of the dt given
\* until it fires when i is a whole multiple of 2*dt*time_scale, and in
\* every case brings it to between half and half plus dt/2.
C12_DoublingHalvesUpToOneUpdate ==
    race.started =>
        /\ FiresOnFirstReach(race.slow, race.time_scale)
        /\ FiresOnFirstReach(race.fast, 2 * race.time_scale)
        /\ (race.slow.fired /\ race.fast.fired) =>
              /\ race.slow.wall <= 2 * race.fast.wall
              /\ 2 * race.fast.wall <= race.slow.wall + race.delta_time
              /\ race.interval % (2 * race.delta_time * race.time_scale) = 0
                    => 2 * race.fast.wall = race.slow.wall

\* C12 witness: both timers have fired, the slow one after four updates and
\* the fast one after two
C12_Witness ==
    /\ race.started
    /\ race.slow.fired
    /\ race.fast.fired
    /\ race.slow.wall = 4 * race.delta_time
    /\ race.fast.wall = 2 * race.delta_time
    /\ race.delta_time = 1

\* C12 witness: the interval is not a multiple of 2*dt*time_scale and the
\* time to fire is more than half
C12_WitnessNotHalf ==
    /\ race.started
    /\ race.slow.fired
    /\ race.fast.fired
    /\ 2 * race.fast.wall > race.slow.wall

(***************************************************************************)
(* Properties of the TouchDispatcher.                                      *)
(***************************************************************************)
Invoked == [i \in DOMAIN log.order |-> log.order[i].listener]

\* The callback reported the event handled and its listener swallows touches
Stopped(entry) ==
    entry.handled /\ entry.listener \in {l \in Listeners : swallow_touches(l)}

NoneStopped == \A i \in DOMAIN log.order : ~Stopped(log.order[i])

PosIn(seq, x) == CHOOSE i \in DOMAIN seq : seq[i] = x

\* C2: a callback that returns handled on a listener that swallows touches
\* ends the delivery of that event: the listener was invoked once and none
\* after it; any other callback result hands the event to the next listener.
C2_SwallowStopsDelivery ==
    /\ Invoked = SubSeq(log.snapshot, 1, Len(log.order))
    /\ \A i \in DOMAIN log.order :
          Stopped(log.order[i]) =>
              /\ i = Len(log.order)
              /\ log.done
              /\ Cardinality({j \in DOMAIN log.order :
                     log.order[j].listener = log.order[i].listener}) = 1
    /\ pass.active =>
          /\ ~log.done
          /\ NoneStopped
          /\ Len(log.order) = pass.index - 1
          /\ pass.index <= Len(log.snapshot)
    /\ (log.done /\ NoneStopped) => Len(log.order) = Len(log.snapshot)

\* C2 witness: a pass cut short by a swallowing listener that was not the first
C2_Witness ==
    /\ log.done
    /\ Len(log.order) = 2
    /\ Stopped(log.order[2])
    /\ Len(log.snapshot) = 3

\* C2 witness of the second half: the event went on past a swallowing
\* listener that did not handle it and past a handling one that does not swallow
C2_WitnessContinue ==
    /\ log.done
    /\ Len(log.order) = 3
    /\ \E i \in 1 .. 2 : ~log.order[i].handled /\ swallow_touches(log.order[i].listener)
    /\ \E i \in 1 .. 2 : log.order[i].handled /\ ~swallow_touches(log.order[i].listener)

\* C3: a pass in which no listener swallows invokes every registered listener
\* once, higher priority() first and equal priorities in registration order,
\* so the order is a function of the registrations alone.
C3_PriorityThenRegistrationOrder ==
    (log.done /\ NoneStopped) =>
        /\ Len(Invoked) = Len(log.regs)
        /\ \A l \in Range(log.regs) :
              Cardinality({i \in DOMAIN Invoked : Invoked[i] = l}) = 1
        /\ \A i, j \in DOMAIN Invoked :
              i < j =>
                  \/ priority(Invoked[i]) > priority(Invoked[j])
                  \/ /\ priority(Invoked[i]) = priority(Invoked[j])
                     /\ PosIn(log.regs, Invoked[i]) < PosIn(log.regs, Invoked[j])

\* C3 witness: three listeners, the two of equal priority registered first in
\* an order a sort by name would not keep, all invoked
C3_Witness ==
    /\ log.done
    /\ NoneStopped
    /\ log.regs = <<"L3", "L1", "L2">>
    /\ Invoked = <<"L2", "L3", "L1">>

\* C4: a listener that removes itself inside its own callback leaves the
\* pass running on the listeners it started with, in order, and is neither
\* invoked later in that pass nor registered once the pass is over.
C4_SelfRemovalIsDeferred ==
    /\ pass.active =>
          /\ touch_dispatcher.listeners = log.snapshot
          /\ touch_dispatcher.is_dispatching
          /\ \A l \in self_removed \cap Range(log.snapshot) :
                PosIn(log.snapshot, l) <= pass.index
    /\ ~pass.active =>
          /\ self_removed \cap Range(touch_dispatcher.listeners) = {}
          /\ ~touch_dispatcher.is_dispatching
          /\ touch_dispatcher.pending_remove = <<>>
    /\ (log.done /\ NoneStopped) => Invoked = log.snapshot
    /\ \A i, j \in DOMAIN Invoked : Invoked[i] = Invoked[j] => i = j

\* C4 witness: the first of three listeners removed itself, the other two
\* were still invoked, and it is no longer registered
C4_Witness ==
    /\ log.done
    /\ Len(log.order) = 3
    /\ Invoked[1] \in self_removed
    /\ Len(touch_dispatcher.listeners) = 2

\* C5: the active touches are the ids begun and not ended or cancelled since,
\* each stored under its own id; Moved neither adds nor removes an id.
C5_ActiveTouchesAreLive ==
    /\ DOMAIN touch_dispatcher.active_touches = live
    /\ \A id \in DOMAIN touch_dispatcher.active_touches :
          touch_dispatcher.active_touches[id].id = id

\* C5 witness: Moved arrived for an id that is not active while another is
C5_Witness ==
    /\ pass.active
    /\ pass.phase = "moved"
    /\ pass.ids = {2}
    /\ live = {1}

\* C5 witness: Moved replaced the stored touch of an active id
C5_WitnessMoved ==
    /\ pass.active
    /\ pass.phase = "moved"
    /\ pass.ids = {1}
    /\ live = {1}
    /\ touch_dispatcher.active_touches[1].location = 1

\* The listeners given to add_listener inside a callback of the pass in the log
AddedThisPass == deferred \ Range(log.snapshot)

\* l stands in seq behind every listener of higher priority and every listener
\* of its own priority registered before it, and before every other one
AtPriorityPosition(seq, regs, l) ==
    \A i \in DOMAIN seq :
        IF \/ priority(seq[i]) > priority(l)
           \/ /\ priority(seq[i]) = priority(l)
              /\ PosIn(regs, seq[i]) < PosIn(regs, l)
        THEN i < PosIn(seq, l)
        ELSE i >= PosIn(seq, l)

\* C13: a listener given to add_listener inside a callback is not invoked in
\* that pass; when the pass is over it is registered (unless remove_listener
\* was also called on it in that pass); and every later pass runs over a
\* list that holds it at the position of its priority, behind the listeners
\* of equal priority registered before it, and invokes it there.
C13_AddDuringDispatchIsDeferred ==
    [][/\ \A l \in AddedThisPass' : l \notin Range(Invoked')
       /\ (pass.active /\ ~pass'.active) =>
              \A l \in AddedThisPass \ Range(touch_dispatcher.pending_remove) :
                  /\ l \in Range(touch_dispatcher'.listeners)
                  /\ l \in deferred'
       /\ \A l \in deferred' \cap Range(log'.snapshot) :
              /\ AtPriorityPosition(log'.snapshot, log'.regs, l)
              /\ Len(Invoked') >= PosIn(log'.snapshot, l)
                    => Invoked'[PosIn(log'.snapshot, l)] = l
              /\ (log'.done /\ NoneStopped') => l \in Range(Invoked')]_vars

\* C13 witness: a pass over two listeners is over, neither swallowed, and a
\* listener added inside one of its callbacks was not invoked and is registered
C13_Witness ==
    /\ log.done
    /\ NoneStopped
    /\ Len(Invoked) = 2
    /\ AddedThisPass # {}
    /\ AddedThisPass \subseteq Range(touch_dispatcher.listeners)

\* C13 witness: a later pass has invoked a listener added inside a callback
\* first, ahead of two listeners registered before it
C13_WitnessLater ==
    /\ log.done
    /\ "L2" \in deferred
    /\ log.regs = <<"L3", "L1", "L2">>
    /\ Invoked = <<"L2", "L3", "L1">>

\* C14: remove_all_listeners called inside a callback leaves the pass running
\* over the listeners it started with, and once the pass is over none of
\* them is registered any more.
C14_RemoveAllDuringDispatchIsDeferred ==
    /\ pass.active => touch_dispatcher.listeners = log.snapshot
    /\ (log.done /\ log.removed_all) =>
          Range(touch_dispatcher.listeners) \cap Range(log.snapshot) = {}

(***************************************************************************)
(* Properties of the EventDispatcher.                                      *)
(***************************************************************************)
\* C6: dispatch_event of an event invokes only listeners whose own type is
\* the one the event's type maps to.
C6_OnlyListenersOfTheEventsKind ==
    \A i \in DOMAIN ev_log.order :
        event_listener[ev_log.order[i]].listener_type = ListenerTypeFor(ev_log.event_type)

\* The listeners at the indices queued by remove_listener during the pass
QueuedListeners ==
    {At(event_dispatcher.listeners, event_dispatcher.to_removed_listeners[i]) :
        i \in DOMAIN event_dispatcher.to_removed_listeners}

\* The queued indices are distinct and each is the index of a listener
QueueInRange ==
    LET queue == event_dispatcher.to_removed_listeners
    IN  /\ \A i \in DOMAIN queue : queue[i] < Len(event_dispatcher.listeners)
        /\ \A i, j \in DOMAIN queue : queue[i] = queue[j] => i = j

\* C15: remove_listener(index) called inside a callback of dispatch_event
\* leaves the listeners alone while the pass runs; when the pass is over,
\* the listeners that stood at the requested indices when the requests were
\* made are removed, however many were queued, and all others remain, in
\* order.
C15_QueuedRemovalsAreApplied ==
    [][ev_pass.active =>
          /\ ev_pass'.active => event_dispatcher'.listeners = event_dispatcher.listeners
          /\ (~ev_pass'.active /\ QueueInRange) =>
                 /\ ~panicked'
                 /\ event_dispatcher'.listeners =
                        SelectSeq(event_dispatcher.listeners,
                                  LAMBDA l : l \notin QueuedListeners)]_vars

\* The number of times the dispatch in the log has invoked listener l
TimesInvoked(l) == Cardinality({i \in DOMAIN ev_log.order : ev_log.order[i] = l})

\* The listeners a dispatch is to invoke at the bucket positions before `at`
EarlierInBucket(d, objects, indices, at) ==
    {At(d.listeners, indices[j]) :
        j \in {k \in 1 .. at - 1 :
                  /\ indices[k] < Len(d.listeners)
                  /\ objects[At(d.listeners, indices[k])].enabled
                  /\ ~objects[At(d.listeners, indices[k])].paused}}

\* C16: once a callback has set the event's stopped flag, dispatch_event
\* invokes no further listener of the bucket; the enabled, non-paused
\* listeners earlier in the bucket have each been invoked once; and the call
\* returns with in_update false and the queued removals applied.
C16_StopEndsDeliveryNotTheCall ==
    [][(ev_pass.active /\ ev_pass.event.stopped) =>
          /\ ev_log'.order = ev_log.order
          /\ \A l \in EarlierInBucket(event_dispatcher, event_listener,
                                      ev_pass.indices, ev_pass.at) :
                 TimesInvoked(l) = 1
          /\ (~ev_pass'.active /\ QueueInRange) =>
                 /\ ~panicked'
                 /\ ~event_dispatcher'.in_update
                 /\ event_dispatcher'.to_removed_listeners = <<>>
                 /\ Len(event_dispatcher'.listeners) =
                        Len(event_dispatcher.listeners)
                            - Len(event_dispatcher.to_removed_listeners)]_vars

(***************************************************************************)
(* Properties of the ActionManager.                                        *)
(***************************************************************************)
\* The list without its first action of the tag
WithoutFirstWithTag(actions, tag) ==
    IF FirstWithTag(actions, tag) = None THEN actions
    ELSE LET first == CHOOSE i \in DOMAIN actions :
                         /\ get_tag(actions[i]) = tag
                         /\ \A j \in 1 .. i - 1 : get_tag(actions[j]) # tag
         IN  SubSeq(actions, 1, first - 1) \o SubSeq(actions, first + 1, Len(actions))

\* The actions added for a target and still attached, in the order added
AddedFor(history, target) ==
    LET entries == SelectSeq(history, LAMBDA e : e.target = target)
    IN  [i \in DOMAIN entries |-> entries[i].action]

\* C17: remove_action_by_tag(tag, target) takes the first action with the
\* tag out of the target's list and nothing else: the later actions of that
\* tag, the actions of other tags and the lists of the other targets stay
\* as they were, in order.
C17_RemoveByTagRemovesFirstOnly ==
    [][(am_call'.op = "remove_action_by_tag" /\ am_call' # am_call) =>
          LET key == am_call'.addr
          IN  /\ DOMAIN action_manager'.target_map = DOMAIN action_manager.target_map
              /\ \A k \in DOMAIN action_manager.target_map :
                     action_manager'.target_map[k] =
                         IF k = key
                         THEN WithoutFirstWithTag(action_manager.target_map[k],
                                                  am_call'.tag)
                         ELSE action_manager.target_map[k]]_vars

\* C18: while an action added for target t is attached, get_action_by_tag
\* with its tag and t returns an action of that tag; and right after
\* remove_action_by_tag(tag, t), get_action_by_tag(tag, t) returns none.
C18_LookupFindsWhatAddAttached ==
    [][am_call'.op = "get_action_by_tag" =>
          /\ (\E i \in DOMAIN added :
                  /\ added[i].target = am_call'.target
                  /\ TagOf(added[i].action) = am_call'.tag)
                 => /\ am_call'.result # None
                    /\ get_tag(am_call'.result) = am_call'.tag
          /\ (/\ am_call # None
              /\ am_call.op = "remove_action_by_tag"
              /\ am_call.tag = am_call'.tag
              /\ am_call.target = am_call'.target)
                 => am_call'.result = None]_vars

\* C19: remove_all_actions_from_target(t) detaches the actions added for t
\* and no other: those added for another target stay attached, in the order
\* added, and update goes on stepping them.
C19_RemoveFromTargetLeavesOtherTargets ==
    [][/\ (am_call'.op = "remove_all_actions_from_target" /\ am_call' # am_call) =>
              /\ AddedFor(added', am_call'.target) = <<>>
              /\ \A other \in Targets \ {am_call'.target} :
                     AddedFor(added', other) = AddedFor(added, other)
       /\ (am_call'.op = "update" /\ am_call' # am_call) =>
              Attached(action_manager) \subseteq Range(am_call'.stepped)]_vars

\* C20: update(dt) calls step once on each action attached when it is
\* called, the actions of one target in the order they were added, and
\* detaches none.
C20_UpdateStepsEveryActionOnce ==
    [][(am_call'.op = "update" /\ am_call' # am_call) =>
          /\ ~am_call'.panicked
          /\ \A a \in Attached(action_manager) :
                 Cardinality({i \in DOMAIN am_call'.stepped :
                                 am_call'.stepped[i] = a}) = 1
          /\ Range(am_call'.stepped) \subseteq Attached(action_manager)
          /\ \A target \in Targets :
                 SelectSeq(am_call'.stepped,
                           LAMBDA a : a \in Range(AddedFor(added, target)))
                     = AddedFor(added, target)
          /\ action_manager' = action_manager]_vars

(***************************************************************************)
(* Properties across the components.                                       *)
(***************************************************************************)
\* The batch names no active touch
NoneActive(touches) ==
    \A i \in DOMAIN touches : touches[i].id \notin DOMAIN touch_dispatcher.active_touches

\* C22: no operation aborts on a missing identity or changes a registry:
\* unschedule of an unknown key, get_action_by_tag and remove_action_by_tag
\* without a match, Moved and Ended for touches that are not active,
\* remove_listener of a listener that is not registered, and remove_listener
\* of an index that holds no listener, idle or queued during a dispatch (no
\* Vec::remove has panicked).
C22_MissingIdentityIsANoOp ==
    /\ \A key \in Keys \ DOMAIN scheduler.timers :
          unschedule(scheduler, key) = scheduler
    /\ \A tag \in Tags, addr \in Addrs :
          ActionManager_get_action_by_tag(action_manager, tag, addr) = None
              => ActionManager_remove_action_by_tag(action_manager, tag, addr)
                     = action_manager
    /\ \A touches \in Batches :
          NoneActive(touches) =>
              /\ UpdateTouches(touch_dispatcher.active_touches, touches)
                     = touch_dispatcher.active_touches
              /\ RemoveTouches(touch_dispatcher.active_touches, touches)
                     = touch_dispatcher.active_touches
    /\ \A l \in Listeners \ Range(touch_dispatcher.listeners) :
          Retain(touch_dispatcher.listeners, l) = touch_dispatcher.listeners
    /\ ~panicked

(***************************************************************************)
(* Properties of the EventDispatcher's listeners after a removal.          *)
(***************************************************************************)
\* The registered listeners of the type, in registration order
OfType(d, listener_type) ==
    SelectSeq(d.listeners, LAMBDA l : event_listener[l].listener_type = listener_type)

\* C25: with remove_listener applied while idle (and add_listener after it),
\* a later dispatch_event invokes every registered listener of its kind once:
\* the call enters the callback of the first of them, none is skipped, and
\* no listener is invoked twice by one call.
C25_OthersStillInvokedOnce ==
    [][/\ (~ev_pass.active /\ ~panicked /\ ev_log'.event_type # "") =>
             LET first == OfType(event_dispatcher, ListenerTypeFor(ev_log'.event_type))
             IN  first # <<>> => ev_log'.order = <<first[1]>>
       /\ \A l \in EventListeners :
             Cardinality({i \in DOMAIN ev_log'.order : ev_log'.order[i] = l}) <= 1]_vars

\* C28: dispatch_event enters the callback of a listener only if the listener
\* is enabled and not paused when the loop reaches it, and
\* set_enabled(kind, false) disables every registered listener of the kind
\* and leaves the listeners of the other kinds as they were.
C28_FlagsDecideDelivery ==
    [][/\ (ev_pass'.active /\ ev_log'.order # ev_log.order) =>
             LET l == ev_log'.order[Len(ev_log'.order)]
             IN  event_listener[l].enabled /\ ~event_listener[l].paused
       /\ \A call \in Range(ev_log'.set_enabled) :
             ~call.enabled =>
                 \A l \in Range(event_dispatcher.listeners) :
                     IF event_listener[l].listener_type = call.listener_type
                     THEN ~event_listener'[l].enabled
                     ELSE event_listener'[l].enabled = event_listener[l].enabled]_vars

(***************************************************************************)
(* Properties of the TouchDispatcher's touches and of the end of a pass.   *)
(***************************************************************************)
\* C24: the active touches do not depend on the delivery to the listeners:
\* before, during and after a pass they are the touches begun and not ended
\* or cancelled, whether there was no listener, a listener swallowed the
\* event or every listener received it; with listeners of priority 20
\* (swallowing, handled) and 10 the first is invoked once, the second never,
\* and the touch begun is the one active touch.
C24_TrackingIgnoresDelivery ==
    /\ DOMAIN touch_dispatcher.active_touches = live
    /\ log.done =>
          \/ log.snapshot = <<>> /\ log.order = <<>>
          \/ Len(log.order) < Len(log.snapshot) /\ Stopped(log.order[Len(log.order)])
          \/ Len(log.order) = Len(log.snapshot) /\ log.snapshot # <<>>
    /\ (/\ log.done
        /\ log.snapshot = <<"L2", "L1">>
        /\ log.order # <<>>
        /\ log.order[1].handled
        /\ live = {1}) =>
          /\ Invoked = <<"L2">>
          /\ Cardinality(DOMAIN touch_dispatcher.active_touches) = 1

\* The listener of priority 20 swallowed the touch, which is active
C24_Witness ==
    /\ log.done
    /\ log.snapshot = <<"L2", "L1">>
    /\ log.order = <<[listener |-> "L2", handled |-> TRUE]>>
    /\ touch_dispatcher.active_touches = MapInsert(EmptyMap, 1, [id |-> 1, location |-> 0])

\* A touch became active in a call that found no listener
C24_WitnessNoListener ==
    /\ log.done
    /\ log.snapshot = <<>>
    /\ touch_dispatcher.listeners = <<>>
    /\ DOMAIN touch_dispatcher.active_touches = {1}

\* C26: when a pass ends, is_dispatching is cleared, the queued additions are
\* applied and then the queued removals, so that a listener added and removed
\* in the same pass is not registered afterwards; no handle_touches_* call
\* returns with is_dispatching set or a queue that is not empty, also when a
\* listener that swallows ended the pass.
C26_PassEndAppliesQueues ==
    [][/\ (pass.active /\ ~pass'.active) =>
             /\ touch_dispatcher'.listeners =
                    RetainAll(touch_dispatcher.listeners \o touch_dispatcher.pending_add,
                              touch_dispatcher.pending_remove)
             /\ \A l \in Range(touch_dispatcher.pending_add)
                          \cap Range(touch_dispatcher.pending_remove) :
                    l \notin Range(touch_dispatcher'.listeners)
       /\ ~pass'.active =>
             /\ ~touch_dispatcher'.is_dispatching
             /\ touch_dispatcher'.pending_add = <<>>
             /\ touch_dispatcher'.pending_remove = <<>>]_vars

\* A listener that swallows has ended a pass in which a listener was added
\* and removed
C26_Witness ==
    /\ log.done
    /\ log.order # <<>>
    /\ Len(log.order) < Len(log.snapshot)
    /\ log.dropped # {}
    /\ log.dropped \cap Range(touch_dispatcher.listeners) = {}
    /\ ~touch_dispatcher.is_dispatching

\* C27: a Moved or Ended batch none of whose touch ids is active is ignored:
\* the active touches stay as they are and no listener's callback is entered
\* for the batch.
C27_UnknownTouchesAreIgnored ==
    [][(/\ ~pass.active
        /\ pass'.active
        /\ pass'.phase \in {"moved", "ended"}
        /\ pass'.ids \cap DOMAIN touch_dispatcher.active_touches = {}) => FALSE]_vars

\* The part of C27 about the active touches: a pass begun for a Moved or Ended
\* batch of unknown ids leaves them as they were
C27_UnknownTouchesLeaveActiveSet ==
    [][(/\ ~pass.active
        /\ pass'.active
        /\ pass'.phase \in {"moved", "ended"}
        /\ pass'.ids \cap DOMAIN touch_dispatcher.active_touches = {}) =>
          touch_dispatcher'.active_touches = touch_dispatcher.active_touches]_vars

(***************************************************************************)
(* Properties of the countdown of a timer's repeat counter.                *)
(***************************************************************************)
\* C23: a timer scheduled with the repeat value schedule_simple passes is
\* never removed by update, however often it has fired: no step of an update
\* call takes such a timer out of the Scheduler.
C23_ForeverTimerIsNeverRemoved ==
    [][upd.active =>
          \A key \in TimersOf(scheduler) :
              hist[key].repeat = Forever => key \in TimersOf(scheduler')]_vars

\* An update call does not end in a panic
NotAborted == upd.active => ~upd.aborted

\* C29: one update call invokes a timer's callback at most once, however many
\* whole intervals the scaled delta spans: only the loop's visit of a key
\* invokes its callback, it invokes it once and takes one interval off the
\* elapsed time, leaving the rest there, and the loop visits no key twice.
C29_AtMostOneFiringPerUpdate ==
    [][/\ \A key \in DOMAIN hist \cap DOMAIN hist' :
             hist'[key].fires > hist[key].fires =>
                 /\ Visits(key)
                 /\ hist'[key].fires = hist[key].fires + 1
                 /\ scheduler'.timers[key].elapsed =
                        scheduler.timers[key].elapsed + upd.scaled_delta
                            - scheduler.timers[key].interval
       /\ (upd.active /\ upd'.active) => upd'.todo \subseteq upd.todo]_vars

\* The loop has passed a timer that fired and still holds a whole interval
C29_Witness ==
    /\ upd.active
    /\ \E key \in TimersOf(scheduler) \ upd.todo :
          /\ last_call = CallbackCall(scheduler, key)
          /\ hist[key].fires = 1
          /\ scheduler.timers[key].interval > 0
          /\ scheduler.timers[key].elapsed >= scheduler.timers[key].interval

InRange(key) == hist[key].start >= MinI32 + hist[key].fires

C21_TickUpdatesSchedulerThenActions ==
    (frame.ticked /\ ~frame.is_paused) =>
        frame.calls = <<[callee |-> "scheduler", delta_time |-> frame.delta_time],
                        [callee |-> "action_manager", delta_time |-> frame.delta_time]>>

=============================================================================
